---- MODULE Spec2Model ----
(***************************************************************************)
(* Model of pyqt-journal-times: the Day One export analysis pipeline       *)
(* (source/tools.py, source/graph.py) and the App window that runs it.     *)
(*                                                                         *)
(* Time is counted in whole hours.  A matplotlib date number (a float      *)
(* number of days) d is represented by the integer 24 * d, so int(x) is    *)
(* Floor(x) and x % 1 is Frac(x) below.                                    *)
(***************************************************************************)
EXTENDS Integers, Sequences, FiniteSets, TLC

VARIABLES
    local_timezone,  \* tzlocal.get_localzone(): the zone of the host
    file,            \* App.file: the document chosen in the last dialog
    plot_tabs,       \* App.plot_tabs: None (0) or the id of a PlotTabs widget
    central,         \* QMainWindow.centralWidget(): None (0) or a widget id
    scheduled,       \* widgets with a pending deleteLater()
    maximized,       \* the window was put in the maximized state
    opens,           \* number of file dialogs accepted so far
    err,             \* exception that left the last slot, "" if none
    raised_in,       \* the function whose statement raised it, "" if none
    dp,              \* the DotPlot canvas of the widget plot_tabs denotes
    hg,              \* the Histogram canvas of the widget plot_tabs denotes
    tag_list,        \* argument of a direct call of calc_color_map
    color_out        \* result of that call

vars == <<local_timezone, file, plot_tabs, central, scheduled, maximized,
          opens, err, raised_in, dp, hg, tag_list, color_out>>

appvars == <<local_timezone, file, plot_tabs, central, scheduled, maximized,
             opens, err, raised_in, dp, hg>>

(***************************************************************************)
(* Bounds of the model.                                                    *)
(***************************************************************************)
MaxEntries == 2
MaxDay == 2
MaxOpens == 3
MaxTags == 3

HoursPerDay == 24
NBuckets == 25

None == 0

(***************************************************************************)
(* Strings.  TLC has no order on strings, so the code-point order that     *)
(* Python's sorted() uses is given by the position in TagOrder.            *)
(***************************************************************************)
TagOrder == <<"art", "home", "none", "work">>

TagUniverse == {TagOrder[i] : i \in 1..Len(TagOrder)}

Rank(t) == CHOOSE i \in 1..Len(TagOrder) : TagOrder[i] = t

StrLess(a, b) == Rank(a) < Rank(b)

Floor(x) == (x \div HoursPerDay) * HoursPerDay

Frac(x) == x % HoursPerDay

(***************************************************************************)
(* A creationDate string "YYYY-MM-DDTHH:MM:SSZ" is modelled by the digits  *)
(* that vary: <<day digit, tens of the hour, units of the hour>>.          *)
(***************************************************************************)
DateStrings == {<<d, h1, h2>> : d \in 1..MaxDay, h1 \in {0, 2}, h2 \in {3, 4}}

\* Python's < on two strings of the fixed format: lexicographic on the digits
DateStrLess(a, b) ==
    \/ a[1] < b[1]
    \/ a[1] = b[1] /\ a[2] < b[2]
    \/ a[1] = b[1] /\ a[2] = b[2] /\ a[3] < b[3]

\* datetime.strptime(date_str, "%Y-%m-%dT%H:%M:%SZ"): %H accepts 00..23
strptime(date_str) ==
    LET hour == 10 * date_str[2] + date_str[3]
    IN  IF hour > 23
        THEN [err |-> "ValueError", val |-> 0]
        ELSE [err |-> "", val |-> HoursPerDay * date_str[1] + hour]

(***************************************************************************)
(* Time zones: dst is the offset for UTC instants in [start, stop), std    *)
(* the offset elsewhere.                                                   *)
(***************************************************************************)
FixedWest == [std |-> -5, dst |-> -5, start |-> 0, stop |-> 0]
FixedEast == [std |-> 1, dst |-> 1, start |-> 0, stop |-> 0]
SpringForward == [std |-> -5, dst |-> -4, start |-> 2 * HoursPerDay + 7, stop |-> 1000]
FallBack == [std |-> -5, dst |-> -4, start |-> -1000, stop |-> 2 * HoursPerDay + 6]

Zones == {FixedWest, FixedEast, SpringForward, FallBack}

\* tzinfo.utcoffset at the UTC instant u
utcoffset(tz, u) == IF tz.start <= u /\ u < tz.stop THEN tz.dst ELSE tz.std

\* time.localtime: the wall clock of the zone at the UTC instant u
localtime(tz, u) == u + utcoffset(tz, u)

Max(a, b) == IF a >= b THEN a ELSE b

\* datetime._mktime with fold = 0: the UTC instant at which the wall clock of
\* the zone reads t (max_fold_seconds is one day)
mktime(tz, t) ==
    LET a  == localtime(tz, t) - t
        u1 == t - a
        t1 == localtime(tz, u1)
        ub == u1 - HoursPerDay
        b  == IF t1 = t THEN localtime(tz, ub) - ub ELSE t1 - u1
        u2 == t - b
        t2 == localtime(tz, u2)
    IN  IF t1 = t /\ a = b THEN u1
        ELSE IF t2 = t THEN u2
        ELSE IF t1 = t THEN u1
        ELSE Max(u1, u2)

\* utc_time.astimezone(tz).utcoffset() for the naive utc_time = t: the naive
\* value is read as the wall clock of the system zone (the fixed offset that
\* _local_timezone finds at _mktime), taken to UTC with that offset, and
\* tz.fromutc gives the aware result its offset at that instant
astimezone_utcoffset(tz, t) == utcoffset(tz, t - utcoffset(tz, mktime(tz, t)))

str_to_date(tz, date_str) ==
    LET utc_time == strptime(date_str)
    IN  IF utc_time.err # ""
        THEN utc_time
        ELSE [err |-> "", val |-> utc_time.val + astimezone_utcoffset(tz, utc_time.val)]

(***************************************************************************)
(* Documents.  A file is either not JSON, or a JSON object that may lack   *)
(* the "entries" key; an entry may lack the "tags" key.                    *)
(***************************************************************************)
TagLists == {<<>>, <<"home">>, <<"work">>, <<"work", "home">>}

Entries == [creationDate : DateStrings, has_tags : {TRUE}, tags : TagLists]
           \cup [creationDate : DateStrings, has_tags : {FALSE}, tags : {<<>>}]

SeqsUpTo(S, n) == UNION {[1..k -> S] : k \in 0..n}

NotJson == [syntax_ok |-> FALSE, has_entries |-> FALSE, entries |-> <<>>]
NoEntriesKey == [syntax_ok |-> TRUE, has_entries |-> FALSE, entries |-> <<>>]

Export(es) == [syntax_ok |-> TRUE, has_entries |-> TRUE, entries |-> es]

Files == {NotJson, NoEntriesKey} \cup {Export(es) : es \in SeqsUpTo(Entries, MaxEntries)}

\* the documents opened in the window specification: at most one entry each
AppFiles == {NotJson, NoEntriesKey} \cup {Export(es) : es \in SeqsUpTo(Entries, 1)}

\* App.file before the first dialog: no such attribute
NoFile == [syntax_ok |-> FALSE, has_entries |-> TRUE, entries |-> <<>>]

\* json.load of the file: the parsed object, or JSONDecodeError
\* a loader that rejects a document without the entries key
extract_json_checked(f) ==
    IF f.syntax_ok /\ f.has_entries
    THEN [err |-> "", val |-> [has_entries |-> TRUE, entries |-> f.entries]]
    ELSE [err |-> IF f.syntax_ok THEN "KeyError" ELSE "JSONDecodeError",
          val |-> [has_entries |-> FALSE, entries |-> <<>>]]

extract_json(f) ==
    IF f.syntax_ok
    THEN [err |-> "", val |-> [has_entries |-> f.has_entries, entries |-> f.entries]]
    ELSE [err |-> "JSONDecodeError", val |-> [has_entries |-> FALSE, entries |-> <<>>]]

(***************************************************************************)
(* tools.py                                                                *)
(***************************************************************************)
RECURSIVE sorted(_)
\* sorted(list(set)): repeatedly take the least element
sorted(S) ==
    IF S = {} THEN <<>>
    ELSE LET m == CHOOSE x \in S : \A y \in S : ~StrLess(y, x)
         IN  <<m>> \o sorted(S \ {m})

find_tags(entries) ==
    LET tagged == {i \in 1..Len(entries) : entries[i].has_tags}
        avail_tags == {entries[i].tags[1] : i \in tagged} \cup {"none"}
    IN  IF \E i \in tagged : entries[i].tags = <<>>
        THEN [err |-> "IndexError", val |-> <<>>]
        ELSE [err |-> "", val |-> sorted(avail_tags)]

Black == [kind |-> "rgba", v |-> <<0, 0, 0, 1>>]

\* ScalarMappable(Normalize(vmin, vmax), gist_ncar).to_rgba(index): the palette
\* colour at the normalized position (index - vmin) / (vmax - vmin)
to_rgba(vmin, vmax, index) == [kind |-> "gist_ncar", v |-> <<index - vmin, vmax - vmin>>]

\* enumerate(tags) is 0-indexed; a repeated key keeps its last value
LastIndex(tags, tag) ==
    (CHOOSE i \in 1..Len(tags) :
        tags[i] = tag /\ \A j \in (i + 1)..Len(tags) : tags[j] # tag) - 1

\* calc_color_map without the assignment color_map["none"] = black
calc_color_map_dropnone(tags) ==
    LET vmin == 0
        vmax == Len(tags)
        keys == {tags[i] : i \in 1..Len(tags)} \ {"none"}
    IN  [tag \in keys |-> to_rgba(vmin, vmax, LastIndex(tags, tag))]

\* calc_color_map ranking the tags with "none" left out of index and vmax
calc_color_map_ranked(tags) ==
    LET vmin == 0
        keys == {tags[i] : i \in 1..Len(tags)} \ {"none"}
        vmax == Cardinality(keys)
    IN  [tag \in keys \cup {"none"} |->
            IF tag = "none" THEN Black
            ELSE to_rgba(vmin, vmax, Cardinality({t \in keys : StrLess(t, tag)}))]

calc_color_map(tags) ==
    LET vmin == 0
        vmax == Len(tags)
        keys == {tags[i] : i \in 1..Len(tags)} \ {"none"}
    IN  [tag \in keys \cup {"none"} |->
            IF tag = "none" THEN Black
            ELSE to_rgba(vmin, vmax, LastIndex(tags, tag))]

(***************************************************************************)
(* graph.py: the two canvases                                              *)
(***************************************************************************)
\* max instead of min: the first entry with the greatest string
earliest_entry_greatest(entries) ==
    CHOOSE i \in 1..Len(entries) :
        /\ \A j \in 1..Len(entries) : ~DateStrLess(entries[i].creationDate, entries[j].creationDate)
        /\ \A j \in 1..(i - 1) : entries[j].creationDate # entries[i].creationDate

\* min(entries, key=creationDate): the first entry with the least string
earliest_entry(entries) ==
    CHOOSE i \in 1..Len(entries) :
        /\ \A j \in 1..Len(entries) : ~DateStrLess(entries[j].creationDate, entries[i].creationDate)
        /\ \A j \in 1..(i - 1) : entries[j].creationDate # entries[i].creationDate

\* the exception the loop body raises on one entry, "" if none
entry_error(entry) ==
    IF strptime(entry.creationDate).err # "" THEN "ValueError"
    ELSE IF entry.has_tags /\ entry.tags = <<>> THEN "IndexError"
    ELSE ""

primary_tag(entry) == IF entry.has_tags THEN entry.tags[1] ELSE "none"

NoDots == [err |-> "", dots |-> <<>>, x_0 |-> 0]

\* the loop body of DotPlot.parse_entries, date = str_to_date(creationDate)
DotPlot_dot(date, entry, color_map, x_0) ==
    [color |-> color_map[primary_tag(entry)], tag |-> primary_tag(entry),
     x_value |-> Floor(date), y_value |-> Floor(x_0) + Frac(date)]

\* the loop body of Histogram.parse_entries
Histogram_dot(date, entry, color_map, x_0) ==
    [color |-> color_map[primary_tag(entry)], tag |-> primary_tag(entry),
     x_value |-> Floor(date), y_value |-> Floor(x_0) + date]

\* the exception min(), str_to_date of the earliest entry or the loop body
\* raises first, "" if parse_entries returns
parse_error(entries) ==
    LET bad == {i \in 1..Len(entries) : entry_error(entries[i]) # ""}
    IN  IF entries = <<>> THEN "ValueError"
        ELSE IF strptime(entries[earliest_entry(entries)].creationDate).err # ""
        THEN "ValueError"
        ELSE IF bad # {}
        THEN entry_error(entries[CHOOSE i \in bad : \A j \in bad : i <= j])
        ELSE ""

DotPlot_parse_entries(tz, entries, color_map) ==
    LET x_0 == str_to_date(tz, entries[earliest_entry(entries)].creationDate).val
    IN  IF parse_error(entries) # "" THEN [NoDots EXCEPT !.err = parse_error(entries)]
        ELSE [err |-> "",
              dots |-> [i \in 1..Len(entries) |->
                           DotPlot_dot(str_to_date(tz, entries[i].creationDate).val,
                                       entries[i], color_map, x_0)],
              x_0 |-> x_0]

Histogram_parse_entries(tz, entries, color_map) ==
    LET x_0 == str_to_date(tz, entries[earliest_entry(entries)].creationDate).val
    IN  IF parse_error(entries) # "" THEN [NoDots EXCEPT !.err = parse_error(entries)]
        ELSE [err |-> "",
              dots |-> [i \in 1..Len(entries) |->
                           Histogram_dot(str_to_date(tz, entries[i].creationDate).val,
                                         entries[i], color_map, x_0)],
              x_0 |-> x_0]

\* dates.num2date(y).hour
hour_of(y) == Frac(y)

gen_hour_histogram_data(tags, dots, x_0) ==
    LET start_day == Floor(x_0)
        tag_freq(tag) == [i \in 0..(NBuckets - 1) |->
            Cardinality({d \in 1..Len(dots) : dots[d].tag = tag /\ hour_of(dots[d].y_value) = i})]
    IN  [tag \in {tags[i] : i \in 1..Len(tags)} |->
            [time_of_day \in {start_day + hour : hour \in 0..(NBuckets - 1)} |->
                tag_freq(tag)[time_of_day - start_day]]]

NoCanvas == [built |-> FALSE, tags |-> <<>>, color_map |-> <<>>, dots |-> <<>>,
             x_0 |-> 0, histogram_data |-> <<>>]

\* the exception raised before parse_entries is called: by json.load, by
\* full_json["entries"] or by find_tags
load_error(f) ==
    IF extract_json(f).err # "" THEN extract_json(f).err
    ELSE IF ~extract_json(f).val.has_entries THEN "KeyError"
    ELSE find_tags(extract_json(f).val.entries).err

\* the function whose statement raises when a canvas cannot be built: the
\* json.load of extract_json, the full_json["entries"] of the constructor,
\* the entry["tags"][0] of find_tags, or parse_entries and what it calls
raise_site(f) ==
    IF extract_json(f).err # "" THEN "extract_json"
    ELSE IF ~extract_json(f).val.has_entries THEN "DotPlot.__init__"
    ELSE IF find_tags(extract_json(f).val.entries).err # "" THEN "find_tags"
    ELSE "DotPlot.parse_entries"

\* the attributes a canvas has once parse_entries has returned, or the
\* exception that ended its __init__
canvas_attributes(load_err, tags, color_map, parsed) ==
    IF load_err # "" THEN [err |-> load_err, canvas |-> NoCanvas]
    ELSE IF parsed.err # "" THEN [err |-> parsed.err, canvas |-> NoCanvas]
    ELSE [err |-> "",
          canvas |-> [built |-> TRUE, tags |-> tags, color_map |-> color_map,
                      dots |-> parsed.dots, x_0 |-> parsed.x_0,
                      histogram_data |-> <<>>]]

DotPlot_init(tz, f) ==
    LET entries == extract_json(f).val.entries
        tags == find_tags(entries).val
    IN  canvas_attributes(load_error(f), tags, calc_color_map(tags),
                          DotPlot_parse_entries(tz, entries, calc_color_map(tags)))

\* self.histogram_data = self.gen_hour_histogram_data()
set_histogram_data(r) ==
    IF r.err # "" THEN r
    ELSE [r EXCEPT !.canvas.histogram_data =
             gen_hour_histogram_data(r.canvas.tags, r.canvas.dots, r.canvas.x_0)]

Histogram_init(tz, f) ==
    LET entries == extract_json(f).val.entries
        tags == find_tags(entries).val
    IN  set_histogram_data(
            canvas_attributes(load_error(f), tags, calc_color_map(tags),
                              Histogram_parse_entries(tz, entries, calc_color_map(tags))))

\* the two tabs, the DotPlot first
tabs(dot, hist) ==
    IF dot.err # "" THEN [err |-> dot.err, dp |-> NoCanvas, hg |-> NoCanvas]
    ELSE IF hist.err # "" THEN [err |-> hist.err, dp |-> NoCanvas, hg |-> NoCanvas]
    ELSE [err |-> "", dp |-> dot.canvas, hg |-> hist.canvas]

PlotTabs_init(tz, f) == tabs(DotPlot_init(tz, f), Histogram_init(tz, f))

(***************************************************************************)
(* graph.py: the App window                                                *)
(***************************************************************************)
NotCalled == [done |-> FALSE, map |-> <<>>]

Init ==
    /\ local_timezone \in Zones
    /\ file = NoFile
    /\ plot_tabs = None
    /\ central = None
    /\ scheduled = {}
    /\ maximized = FALSE
    /\ opens = 0
    /\ err = ""
    /\ raised_in = ""
    /\ dp = NoCanvas
    /\ hg = NoCanvas
    /\ tag_list = <<>>
    /\ color_out = NotCalled

\* App.plot_graphs on self.file = f
plot_graphs(f) ==
    \E built \in {PlotTabs_init(local_timezone, f)} :
        /\ maximized' = TRUE
        /\ IF plot_tabs # None /\ central = None
           THEN \* self.centralWidget() is None: no attribute deleteLater
                /\ err' = "AttributeError"
                /\ raised_in' = "App.plot_graphs"
                /\ UNCHANGED <<plot_tabs, central, scheduled, dp, hg>>
           ELSE /\ scheduled' = IF plot_tabs # None THEN scheduled \cup {central}
                                 ELSE scheduled
                /\ err' = built.err
                /\ raised_in' = IF built.err # "" THEN raise_site(f) ELSE ""
                /\ IF built.err # ""
                   THEN UNCHANGED <<plot_tabs, central, dp, hg>>
                   ELSE /\ plot_tabs' = opens + 1
                        /\ central' = opens + 1
                        /\ dp' = built.dp
                        /\ hg' = built.hg

\* App.open_dialog with the dialog accepted on the document f (a cancelled
\* dialog returns an empty name and changes nothing)
open_dialog(f) ==
    /\ file' = f
    /\ opens' = opens + 1
    /\ plot_graphs(f)
    /\ UNCHANGED <<local_timezone, tag_list, color_out>>

\* the event loop delivers the DeferredDelete events posted by deleteLater();
\* the layout of the main window drops a central widget that is destroyed
DeferredDelete ==
    /\ scheduled # {}
    /\ scheduled' = {}
    /\ central' = IF central \in scheduled THEN None ELSE central
    /\ UNCHANGED <<local_timezone, file, plot_tabs, maximized, opens, err,
                   raised_in, dp, hg, tag_list, color_out>>

OpenAppFile == opens < MaxOpens /\ \E f \in AppFiles : open_dialog(f)

Next == OpenAppFile \/ DeferredDelete

Spec == Init /\ [][Next]_vars

\* one analysis run: a fresh window opens one document
FirstOpen == opens = 0 /\ \E f \in Files : open_dialog(f)

NextPipeline == FirstOpen

SpecPipeline == Init /\ [][NextPipeline]_vars

\* calc_color_map called on its own on an arbitrary tag list
InitColor ==
    /\ local_timezone = FixedWest
    /\ file = NoFile
    /\ plot_tabs = None
    /\ central = None
    /\ scheduled = {}
    /\ maximized = FALSE
    /\ opens = 0
    /\ err = ""
    /\ raised_in = ""
    /\ dp = NoCanvas
    /\ hg = NoCanvas
    /\ tag_list \in SeqsUpTo(TagUniverse, MaxTags)
    /\ color_out = NotCalled

CallColorMap ==
    /\ ~color_out.done
    /\ color_out' = [done |-> TRUE, map |-> calc_color_map(tag_list)]
    /\ UNCHANGED <<appvars, tag_list>>

NextColor == CallColorMap

SpecColor == InitColor /\ [][NextColor]_vars

(***************************************************************************)
(* Notions of the specification, stated independently of the code          *)
(***************************************************************************)
Range(s) == {s[i] : i \in 1..Len(s)}

StrictlyAscending(s) == \A i \in 1..(Len(s) - 1) : StrLess(s[i], s[i + 1])

\* the UTC instant a well-formed creationDate denotes
UtcInstant(entry) == HoursPerDay * entry.creationDate[1]
                     + 10 * entry.creationDate[2] + entry.creationDate[3]

WellFormedDate(entry) == 10 * entry.creationDate[2] + entry.creationDate[3] <= 23

\* local wall clock at the entry's own instant
LocalAtOwnInstant(entry) == UtcInstant(entry) + utcoffset(local_timezone, UtcInstant(entry))

\* primaryTag of the specification
PrimaryTag(entry) == IF entry.has_tags /\ Len(entry.tags) > 0 THEN entry.tags[1] ELSE "none"

\* a document the specification calls valid, with at least one entry
ValidNonEmptyExport ==
    /\ opens > 0
    /\ file.syntax_ok
    /\ file.has_entries
    /\ file.entries # <<>>
    /\ \A i \in 1..Len(file.entries) : WellFormedDate(file.entries[i])

\* the palette positions n1/d1 and n2/d2 are the same
SamePosition(n1, d1, n2, d2) == n1 * d2 = n2 * d1

NonNone(tags) == Range(tags) \ {"none"}

(***************************************************************************)
(* Claims                                                                  *)
(***************************************************************************)
\* C1: for every well-formed timestamp and every local zone, the local time
\* of a point is the UTC time plus the offset the zone has at the entry's
\* own instant.
C1_OffsetAtOwnInstant ==
    dp.built =>
        \A i \in 1..Len(dp.dots) :
            dp.dots[i].x_value + (dp.dots[i].y_value - Floor(dp.x_0))
                = LocalAtOwnInstant(file.entries[i])

\* C2: for every entry of a valid export, tag resolution raises no error and
\* the tag of its point in both canvases is the first tag when tags is
\* present and non-empty, "none" otherwise (also when tags is []).
C2_PrimaryTagTotal ==
    ValidNonEmptyExport =>
        /\ err = ""
        /\ dp.built /\ hg.built
        /\ \A i \in 1..Len(file.entries) :
              /\ dp.dots[i].tag = PrimaryTag(file.entries[i])
              /\ hg.dots[i].tag = PrimaryTag(file.entries[i])
              /\ PrimaryTag(file.entries[i]) \in Range(dp.tags)

\* C3: for every list of entries, find_tags returns the primary tags of the
\* entries together with "none", without duplicates, strictly ascending.
C3_FindTagsSortedSet ==
    ValidNonEmptyExport =>
        /\ dp.built
        /\ Range(dp.tags) = {PrimaryTag(file.entries[i]) : i \in 1..Len(file.entries)} \cup {"none"}
        /\ StrictlyAscending(dp.tags)

\* C4: calc_color_map sends "none" to opaque black whatever the list is, and
\* the keys of the map are the tags of the list plus "none".
C4_NoneIsBlack ==
    color_out.done =>
        /\ DOMAIN color_out.map = Range(tag_list) \cup {"none"}
        /\ color_out.map["none"] = [kind |-> "rgba", v |-> <<0, 0, 0, 1>>]

C4_Witness ==
    /\ color_out.done
    /\ Len(tag_list) = 3
    /\ tag_list[1] # "none"
    /\ tag_list[3] = "none"

\* C5 as stated: in a sorted tag list, a tag other than "none" is coloured at
\* position i / N, i its rank among the tags other than "none" and N their
\* number.
C5_RankExcludingNone ==
    (color_out.done /\ StrictlyAscending(tag_list)) =>
        \A tag \in NonNone(tag_list) :
            /\ color_out.map[tag].kind = "gist_ncar"
            /\ SamePosition(color_out.map[tag].v[1], color_out.map[tag].v[2],
                            Cardinality({t \in NonNone(tag_list) : StrLess(t, tag)}),
                            Cardinality(NonNone(tag_list)))

\* C5 amended: a tag other than "none" is coloured at position i / L, i its
\* 0-indexed position in the list as passed, "none" counted (the last one
\* if the tag is repeated), and L the length of the list; distinct tags get
\* distinct positions.
C5_IndexInList ==
    color_out.done =>
        /\ \A tag \in NonNone(tag_list) :
              /\ color_out.map[tag].kind = "gist_ncar"
              /\ \E i \in 1..Len(tag_list) :
                    /\ tag_list[i] = tag
                    /\ \A j \in 1..Len(tag_list) : tag_list[j] = tag => j <= i
                    /\ color_out.map[tag].v = <<i - 1, Len(tag_list)>>
        /\ \A t1, t2 \in NonNone(tag_list) :
              t1 # t2 => ~SamePosition(color_out.map[t1].v[1], color_out.map[t1].v[2],
                                       color_out.map[t2].v[1], color_out.map[t2].v[2])

C5_Witness ==
    /\ color_out.done
    /\ tag_list = <<"home", "none", "work">>
    /\ color_out.map["work"].v = <<2, 3>>

\* C6: for every non-empty export the histogram has, for every tag of the
\* sorted tag list, 25 buckets, and bucket h of tag t counts the entries
\* with primary tag t created in local hour h; bucket 24 is zero.
C6_HistogramCounts ==
    ValidNonEmptyExport =>
        /\ hg.built
        /\ DOMAIN hg.histogram_data = Range(hg.tags)
        /\ \A tag \in Range(hg.tags) :
              /\ DOMAIN hg.histogram_data[tag] = {Floor(hg.x_0) + h : h \in 0..24}
              /\ \A h \in 0..24 :
                    hg.histogram_data[tag][Floor(hg.x_0) + h] =
                        Cardinality({i \in 1..Len(file.entries) :
                            /\ PrimaryTag(file.entries[i]) = tag
                            /\ Frac(LocalAtOwnInstant(file.entries[i])) = h})

\* C7: an export with no entries is not an error: the run completes with no
\* points and a histogram of the single tag "none" with 25 zero buckets.
C7_EmptyExportCompletes ==
    (opens > 0 /\ file = Export(<<>>)) =>
        /\ err = ""
        /\ dp.built /\ hg.built
        /\ dp.dots = <<>>
        /\ DOMAIN hg.histogram_data = {"none"}
        /\ Cardinality(DOMAIN hg.histogram_data["none"]) = 25
        /\ \A k \in DOMAIN hg.histogram_data["none"] : hg.histogram_data["none"][k] = 0

\* C8: in both canvases x_value is the whole-day number of the entry's local
\* date and y_value is floor(origin) plus the fraction of the day of the
\* local timestamp, so y_value lies in [floor(origin), floor(origin) + 1).
C8_RebasedTimeOfDay ==
    (dp.built /\ hg.built) =>
        \A i \in 1..Len(file.entries) :
            LET local == LocalAtOwnInstant(file.entries[i])
            IN  /\ dp.dots[i].x_value = Floor(local)
                /\ dp.dots[i].y_value = Floor(dp.x_0) + Frac(local)
                /\ Floor(dp.x_0) <= dp.dots[i].y_value
                /\ dp.dots[i].y_value < Floor(dp.x_0) + HoursPerDay
                /\ hg.dots[i].x_value = Floor(local)
                /\ hg.dots[i].y_value = Floor(hg.x_0) + Frac(local)
                /\ Floor(hg.x_0) <= hg.dots[i].y_value
                /\ hg.dots[i].y_value < Floor(hg.x_0) + HoursPerDay

\* C9: for every non-empty export the origin is a whole number of days, the
\* dayCoordinate of the chronologically earliest entry.
C9_OriginIsWholeDay ==
    (dp.built /\ hg.built) =>
        /\ dp.x_0 % HoursPerDay = 0
        /\ hg.x_0 % HoursPerDay = 0
        /\ \E i \in 1..Len(file.entries) :
              /\ \A j \in 1..Len(file.entries) :
                    UtcInstant(file.entries[i]) <= UtcInstant(file.entries[j])
              /\ dp.x_0 = dp.dots[i].x_value
              /\ hg.x_0 = hg.dots[i].x_value

\* the last open was of a malformed document or of an export with a
\* malformed timestamp
MalformedOpen ==
    /\ opens > 0
    /\ \/ ~file.syntax_ok
       \/ ~file.has_entries
       \/ \E i \in 1..Len(file.entries) : ~WellFormedDate(file.entries[i])

\* C10: after an open whose analysis fails, plot_tabs and the central widget
\* denote the same widget (or none), and it is not scheduled for deletion.
C10_FailedOpenLeavesPlots ==
    (MalformedOpen /\ err # "") =>
        /\ plot_tabs = central
        /\ central \notin scheduled

\* the only open of the run was of a document that is not valid JSON or
\* that has no top-level entries key
MalformedDocumentOpen == opens > 0 /\ (~file.syntax_ok \/ ~file.has_entries)

PrimaryTags(entries) == {PrimaryTag(entries[i]) : i \in 1..Len(entries)}

\* the lists of entries up to their creation dates, which find_tags and
\* calc_color_map do not read
TagVariants == SeqsUpTo({e \in Entries : e.creationDate = <<1, 0, 3>>}, MaxEntries)

\* C12: find_tags and calc_color_map depend only on the set of primary
\* tags: every list of entries with the same set of primary tags as the
\* export opened, in any order, with any multiplicity and with any tags
\* after the first, gives the tag list and the colour map of the export.
C12_DependsOnPrimaryTagSet ==
    (opens > 0 /\ file.syntax_ok /\ file.has_entries) =>
        \A es \in TagVariants :
            PrimaryTags(es) = PrimaryTags(file.entries) =>
                /\ find_tags(es).err = ""
                /\ find_tags(es) = find_tags(file.entries)
                /\ calc_color_map(find_tags(es).val)
                      = calc_color_map(find_tags(file.entries).val)
                /\ dp.built => /\ dp.tags = find_tags(es).val
                               /\ dp.color_map = calc_color_map(find_tags(es).val)

\* C13: for every non-empty export and every zone, the entry with the least
\* creationDate string has the least local date, so in both canvases no
\* point has an x_value below floor(origin), and the least x_value is
\* floor(origin); also with entries on both sides of a daylight-saving
\* change.
C13_NoPointBeforeOrigin ==
    (ValidNonEmptyExport /\ dp.built /\ hg.built) =>
        /\ \A i \in 1..Len(dp.dots) : dp.dots[i].x_value >= Floor(dp.x_0)
        /\ \A i \in 1..Len(hg.dots) : hg.dots[i].x_value >= Floor(hg.x_0)
        /\ dp.dots[earliest_entry(file.entries)].x_value = Floor(dp.x_0)
        /\ hg.dots[earliest_entry(file.entries)].x_value = Floor(hg.x_0)
        /\ \A i, j \in 1..Len(file.entries) :
              UtcInstant(file.entries[i]) <= UtcInstant(file.entries[j])
                  => dp.dots[i].x_value <= dp.dots[j].x_value

\* two entries on the two sides of the change of a zone with daylight
\* saving, the later one first in the export and on a later local day
C13_Witness ==
    /\ dp.built /\ hg.built
    /\ local_timezone.std # local_timezone.dst
    /\ Len(file.entries) = 2
    /\ utcoffset(local_timezone, UtcInstant(file.entries[1]))
          # utcoffset(local_timezone, UtcInstant(file.entries[2]))
    /\ UtcInstant(file.entries[2]) < UtcInstant(file.entries[1])
    /\ dp.dots[2].x_value = Floor(dp.x_0)
    /\ dp.dots[1].x_value > Floor(dp.x_0)

====
